---- MODULE Spec2Model ----
(***************************************************************************)
(* A model of src/main.py: the resume generator.                           *)
(*                                                                         *)
(* main() builds a ResumeGenerator, loads the YAML record, lets the six    *)
(* section renderers append blocks to one list (the story), hands the      *)
(* story to the document engine and returns an exit code.  TwoColumnLine   *)
(* is the custom block whose right text is placed at layout time.          *)
(*                                                                         *)
(* Values of the loaded record are tagged: None, a list, or a mapping.  A  *)
(* mapping is the sequence of its <<key, value>> pairs in the order of the *)
(* input file; every lookup goes through In and Get, as the code's `in`    *)
(* and [] do.  Leaves are strings.                                         *)
(***************************************************************************)
EXTENDS Integers, Sequences, FiniteSets, TLC

VARIABLES
    input,       \* the input file: [state, content]
    data,        \* ResumeGenerator.data
    styles,      \* ResumeGenerator.styles (the custom entries)
    pc,          \* the statement main() executes next
    story,       \* the block list of generate_pdf
    origin,      \* history: for each block of story, the renderer that appended it
    handed,      \* the block list given to doc.build, <<>> before that
    outputFile,  \* the output file: "absent", "partial" or "written"
    stdout,      \* the printed lines, each a sequence of parts
    exitCode,    \* <<>> while main runs, <<c>> once it has returned c
    log,         \* history: the steps taken, each <<step, "ok" | "fail">>
    line,        \* a TwoColumnLine: its measured text widths
    width,       \* TwoColumnLine.width: <<>> until wrap sets it
    wraps,       \* history: [n, last], the number of wrap calls and the availWidth of the last
    wrapResult,  \* what the last wrap call returned, <<>> before
    drawn        \* <<>> or <<[pos, avail]>>: the last draw, and wraps.last at that time

mainVars == <<input, data, styles, pc, story, origin, handed, outputFile,
              stdout, exitCode, log>>
lineVars == <<line, width, wraps, wrapResult, drawn>>
vars == <<input, data, styles, pc, story, origin, handed, outputFile,
          stdout, exitCode, log, line, width, wraps, wrapResult, drawn>>

(***************************************************************************)
(* Bounds of the inputs.                                                   *)
(***************************************************************************)
MaxSections == 3        \* top-level keys of a record of the mixed family
MaxPersonalFields == 3  \* keys of a personal mapping of the personal family
MaxEntries == 2         \* entries of an experience/education/projects list
MaxItems == 3           \* items of a skills/certifications list
MaxBullets == 2         \* responsibilities of an experience entry
MaxTextWidth == 6       \* measured width of a text of a TwoColumnLine
MaxAvailWidth == 34     \* availWidth of a wrap call
MaxWraps == 2           \* wrap calls on one TwoColumnLine
FloatPrecision == 4     \* significand bits of the modelled float format

(***************************************************************************)
(* Values: None, lists and mappings.                                       *)
(***************************************************************************)
NoneV == [t |-> "none", items |-> <<>>]
ListV(s) == [t |-> "list", items |-> s]
MapV(m) == [t |-> "map", items |-> m]

IsNone(v) == v.t = "none"

\* Python's truth value of a container or None: `not v` is ~Truthy(v).
Truthy(v) == v.t # "none" /\ v.items # <<>>

\* `k in m` for a mapping m.
In(k, m) == \E i \in 1..Len(m.items) : m.items[i][1] = k

\* m[k] for a mapping m that has k.
Get(m, k) == m.items[CHOOSE i \in 1..Len(m.items) : m.items[i][1] = k][2]

RECURSIVE Join(_, _)
\* sep.join(parts)
Join(sep, parts) ==
    IF parts = <<>> THEN ""
    ELSE IF Len(parts) = 1 THEN parts[1]
    ELSE parts[1] \o sep \o Join(sep, Tail(parts))

RECURSIVE Flatten(_)
\* The concatenation of a sequence of sequences.
Flatten(ss) == IF ss = <<>> THEN <<>> ELSE ss[1] \o Flatten(Tail(ss))

IsPrefix(s, t) == Len(s) <= Len(t) /\ SubSeq(t, 1, Len(s)) = s

(***************************************************************************)
(* Configuration of the generator built by main().                         *)
(***************************************************************************)
INPUT_FILE == "resume_data.yaml"
OUTPUT_FILE == "Generated_Resume.pdf"

\* The separator glyph of the contact line and the certification bullet are
\* both U+2022; module text is ASCII.
BULLET == "U+2022"

SectionOrder ==
    <<"personal", "experience", "education", "skills", "certifications", "projects">>

Sections == {SectionOrder[i] : i \in 1..Len(SectionOrder)}

\* The custom styles _setup_custom_styles adds to the sample sheet.
CustomStyles ==
    [Name          |-> [fontName |-> "Helvetica-Bold",    fontSize |-> 20, alignment |-> "center"],
     Contact       |-> [fontName |-> "Helvetica",         fontSize |-> 11, alignment |-> "center"],
     SectionHeader |-> [fontName |-> "Helvetica-Bold",    fontSize |-> 14, alignment |-> "left"],
     JobTitle      |-> [fontName |-> "Helvetica-Bold",    fontSize |-> 11, alignment |-> "left"],
     Company       |-> [fontName |-> "Helvetica-Bold",    fontSize |-> 11, alignment |-> "left"],
     DateLocation  |-> [fontName |-> "Helvetica-Oblique", fontSize |-> 11, alignment |-> "left"],
     Description   |-> [fontName |-> "Helvetica",         fontSize |-> 11, alignment |-> "left"],
     BulletPoint   |-> [fontName |-> "Helvetica",         fontSize |-> 11, alignment |-> "left"]]

(***************************************************************************)
(* Blocks (flowables).  A Paragraph holds the name of its style in         *)
(* styles; a Spacer's height is in hundredths of an inch.                  *)
(***************************************************************************)
Paragraph(text, style) == [kind |-> "Paragraph", text |-> text, style |-> style]

Spacer(w, h) == [kind |-> "Spacer", w |-> w, h |-> h]

HRFlowable == [kind |-> "HRFlowable", hrWidth |-> "100%", color |-> "black"]

TwoColumnLine(left_text, right_text, left_style, right_style) ==
    [kind |-> "TwoColumnLine", left_text |-> left_text, right_text |-> right_text,
     left_style |-> left_style, right_style |-> right_style]

FontStyle(fontName, fontSize, textColor) ==
    [fontName |-> fontName, fontSize |-> fontSize, textColor |-> textColor]

(***************************************************************************)
(* The section renderers.  Each returns the blocks it appends to the       *)
(* story, for the loaded record d.                                         *)
(***************************************************************************)
\* add_section_separator: a rule and a spacer.
add_section_separator == <<HRFlowable, Spacer(1, 8)>>

\* create_personal_section collecting the contact fields by a loop over the
\* keys of the personal mapping, in the order of the input.
create_personal_section_KeyOrder(d) ==
    IF ~In("personal", d) THEN <<>>
    ELSE
        LET personal == Get(d, "personal")
            name == IF In("name", personal)
                    THEN <<Paragraph(Get(personal, "name"), "Name")>> ELSE <<>>
            IsContact(kv) == kv[1] # "name"
            kvs == SelectSeq(personal.items, IsContact)
            contact_info == [k \in 1..Len(kvs) |-> kvs[k][2]]
            contact == IF contact_info # <<>>
                       THEN <<Paragraph(Join(" " \o BULLET \o " ", contact_info), "Contact")>>
                       ELSE <<>>
        IN  name \o contact \o <<Spacer(1, 3)>>

\* create_personal_section raises TypeError on `in` applied to None.
personal_raises(d) ==
    \/ IsNone(d)
    \/ In("personal", d) /\ IsNone(Get(d, "personal"))

create_personal_section(d) ==
    IF ~In("personal", d) THEN <<>>
    ELSE
        LET personal == Get(d, "personal")
            name == IF In("name", personal)
                    THEN <<Paragraph(Get(personal, "name"), "Name")>> ELSE <<>>
            c1 == IF In("email", personal) THEN <<Get(personal, "email")>> ELSE <<>>
            c2 == IF In("phone", personal) THEN c1 \o <<Get(personal, "phone")>> ELSE c1
            c3 == IF In("location", personal) THEN c2 \o <<Get(personal, "location")>> ELSE c2
            c4 == IF In("linkedin", personal) THEN c3 \o <<Get(personal, "linkedin")>> ELSE c3
            c5 == IF In("github", personal) THEN c4 \o <<Get(personal, "github")>> ELSE c4
            contact_info ==
                IF In("website", personal) THEN c5 \o <<Get(personal, "website")>> ELSE c5
            contact == IF contact_info # <<>>
                       THEN <<Paragraph(Join(" " \o BULLET \o " ", contact_info), "Contact")>>
                       ELSE <<>>
        IN  name \o contact \o <<Spacer(1, 3)>>

\* experience_entry drawing the company line whenever the company is present,
\* with an empty right text when the location is missing.
experience_entry_CompanyAlone(exp) ==
    LET company_location_line ==
            IF In("company", exp)
            THEN <<TwoColumnLine(Get(exp, "company"),
                                 IF In("location", exp) THEN Get(exp, "location") ELSE "",
                                 FontStyle("Helvetica-Bold", 12, "black"),
                                 FontStyle("Helvetica", 11, "black")),
                   Spacer(1, 2)>>
            ELSE <<>>
        title_date_line ==
            IF In("title", exp) /\ In("duration", exp)
            THEN <<TwoColumnLine(Get(exp, "title"), Get(exp, "duration"),
                                 FontStyle("Helvetica-Oblique", 11, "black"),
                                 FontStyle("Helvetica-Oblique", 11, "grey")),
                   Spacer(1, 4)>>
            ELSE <<>>
        responsibilities ==
            IF In("responsibilities", exp)
            THEN LET rs == Get(exp, "responsibilities").items
                 IN  [j \in 1..Len(rs) |-> Paragraph("- " \o rs[j], "BulletPoint")]
            ELSE <<>>
    IN  company_location_line \o title_date_line \o responsibilities \o <<Spacer(1, 5)>>

\* One iteration of create_experience_section's loop.
experience_entry(exp) ==
    LET company_location_line ==
            IF In("company", exp) /\ In("location", exp)
            THEN <<TwoColumnLine(Get(exp, "company"), Get(exp, "location"),
                                 FontStyle("Helvetica-Bold", 12, "black"),
                                 FontStyle("Helvetica", 11, "black")),
                   Spacer(1, 2)>>
            ELSE <<>>
        title_date_line ==
            IF In("title", exp) /\ In("duration", exp)
            THEN <<TwoColumnLine(Get(exp, "title"), Get(exp, "duration"),
                                 FontStyle("Helvetica-Oblique", 11, "black"),
                                 FontStyle("Helvetica-Oblique", 11, "grey")),
                   Spacer(1, 4)>>
            ELSE <<>>
        responsibilities ==
            IF In("responsibilities", exp)
            THEN LET rs == Get(exp, "responsibilities").items
                 IN  [j \in 1..Len(rs) |-> Paragraph("- " \o rs[j], "BulletPoint")]
            ELSE <<>>
    IN  company_location_line \o title_date_line \o responsibilities \o <<Spacer(1, 5)>>

create_experience_section(d) ==
    IF ~In("experience", d) \/ ~Truthy(Get(d, "experience")) THEN <<>>
    ELSE
        LET es == Get(d, "experience").items
        IN  <<Paragraph("PROFESSIONAL EXPERIENCE", "SectionHeader")>>
            \o add_section_separator
            \o Flatten([i \in 1..Len(es) |-> experience_entry(es[i])])

\* One iteration of create_education_section's loop.
education_entry(edu) ==
    LET institution_duration_line ==
            IF In("institution", edu) /\ In("duration", edu)
            THEN <<TwoColumnLine(Get(edu, "institution"), Get(edu, "duration"),
                                 FontStyle("Helvetica-Bold", 12, "black"),
                                 FontStyle("Helvetica", 11, "black")),
                   Spacer(1, 2)>>
            ELSE <<>>
        degree_location_line ==
            IF In("degree", edu) /\ In("location", edu)
            THEN <<TwoColumnLine(Get(edu, "degree"), Get(edu, "location"),
                                 FontStyle("Helvetica-Oblique", 11, "black"),
                                 FontStyle("Helvetica-Oblique", 11, "grey")),
                   Spacer(1, 5)>>
            ELSE <<>>
    IN  institution_duration_line \o degree_location_line

create_education_section(d) ==
    IF ~In("education", d) \/ ~Truthy(Get(d, "education")) THEN <<>>
    ELSE
        LET es == Get(d, "education").items
        IN  <<Paragraph("EDUCATION", "SectionHeader")>>
            \o add_section_separator
            \o Flatten([i \in 1..Len(es) |-> education_entry(es[i])])

create_skills_section(d) ==
    IF ~In("skills", d) \/ ~Truthy(Get(d, "skills")) THEN <<>>
    ELSE
        LET skills_text == Join(", ", Get(d, "skills").items)
        IN  <<Paragraph("TECHNICAL SKILLS", "SectionHeader")>>
            \o add_section_separator
            \o <<Paragraph(skills_text, "Description"), Spacer(1, 10)>>

create_certifications_section(d) ==
    IF ~In("certifications", d) \/ ~Truthy(Get(d, "certifications")) THEN <<>>
    ELSE
        LET cs == Get(d, "certifications").items
        IN  <<Paragraph("CERTIFICATIONS", "SectionHeader")>>
            \o add_section_separator
            \o [i \in 1..Len(cs) |-> Paragraph(BULLET \o " " \o cs[i], "Description")]

\* project_entry skipping a project that has no name.
project_entry_NeedsName(project) ==
    IF ~In("name", project) THEN <<>>
    ELSE
        LET name == <<Paragraph("<b>" \o Get(project, "name") \o "</b>", "JobTitle")>>
            desc == IF In("description", project)
                    THEN <<Paragraph(Get(project, "description"), "Description")>>
                    ELSE <<>>
            tech == IF In("technologies", project)
                    THEN <<Paragraph("<b>Technologies:</b> " \o Get(project, "technologies"),
                                     "Description")>>
                    ELSE <<>>
            link == IF In("link", project)
                    THEN <<Paragraph("<b>Link:</b> " \o Get(project, "link"), "Description")>>
                    ELSE <<>>
        IN  name \o desc \o tech \o link \o <<Spacer(1, 10)>>

\* One iteration of create_projects_section's loop.
project_entry(project) ==
    LET name == IF In("name", project)
                THEN <<Paragraph("<b>" \o Get(project, "name") \o "</b>", "JobTitle")>>
                ELSE <<>>
        desc == IF In("description", project)
                THEN <<Paragraph(Get(project, "description"), "Description")>>
                ELSE <<>>
        tech == IF In("technologies", project)
                THEN <<Paragraph("<b>Technologies:</b> " \o Get(project, "technologies"),
                                 "Description")>>
                ELSE <<>>
        link == IF In("link", project)
                THEN <<Paragraph("<b>Link:</b> " \o Get(project, "link"), "Description")>>
                ELSE <<>>
    IN  name \o desc \o tech \o link \o <<Spacer(1, 10)>>

\* create_projects_section with the separator the other sections have.
create_projects_section_Separator(d) ==
    IF ~In("projects", d) \/ ~Truthy(Get(d, "projects")) THEN <<>>
    ELSE
        LET ps == Get(d, "projects").items
        IN  <<Paragraph("PROJECTS", "SectionHeader")>>
            \o <<HRFlowable, Spacer(1, 8)>>
            \o Flatten([i \in 1..Len(ps) |-> project_entry(ps[i])])

create_projects_section(d) ==
    IF ~In("projects", d) \/ ~Truthy(Get(d, "projects")) THEN <<>>
    ELSE
        LET ps == Get(d, "projects").items
        IN  <<Paragraph("PROJECTS", "SectionHeader")>>
            \o Flatten([i \in 1..Len(ps) |-> project_entry(ps[i])])

\* The renderer generate_pdf calls for a section.
Render(sec, d) ==
    CASE sec = "personal" -> create_personal_section(d)
      [] sec = "experience" -> create_experience_section(d)
      [] sec = "education" -> create_education_section(d)
      [] sec = "skills" -> create_skills_section(d)
      [] sec = "certifications" -> create_certifications_section(d)
      [] sec = "projects" -> create_projects_section(d)

\* AfterSection with the calls of the experience and education renderers
\* exchanged.
AfterSection_EducationFirst(sec) ==
    CASE sec = "personal" -> "education"
      [] sec = "education" -> "experience"
      [] sec = "experience" -> "skills"
      [] sec = "skills" -> "certifications"
      [] sec = "certifications" -> "projects"
      [] sec = "projects" -> "build"

\* The statement of generate_pdf that follows the call of sec's renderer.
AfterSection(sec) ==
    CASE sec = "personal" -> "experience"
      [] sec = "experience" -> "education"
      [] sec = "education" -> "skills"
      [] sec = "skills" -> "certifications"
      [] sec = "certifications" -> "projects"
      [] sec = "projects" -> "build"

(***************************************************************************)
(* The input records the model draws from.  Each family varies one part of *)
(* the record over every shape within its bound.                           *)
(***************************************************************************)
Injective(f) == \A i, j \in DOMAIN f : f[i] = f[j] => i = j

PersonalFields ==
    {"name", "email", "phone", "location", "linkedin", "github", "website"}

PersonalValue(f) ==
    CASE f = "name" -> "Jane Doe"
      [] f = "email" -> "jane@x.com"
      [] f = "phone" -> "555-0100"
      [] f = "location" -> "Pune"
      [] f = "linkedin" -> "linkedin.com/in/jane"
      [] f = "github" -> "github.com/jane"
      [] f = "website" -> "jane.dev"

\* The value of field f of the i-th entry of a section: distinct for distinct
\* places, so that a block shows where its text came from.
Val(sec, i, f) == sec \o ToString(i) \o "." \o f

ExperienceOrder == <<"company", "location", "title", "duration", "responsibilities">>
EducationOrder == <<"institution", "duration", "degree", "location">>
ProjectOrder == <<"name", "description", "technologies", "link">>

FieldSet(order) == {order[k] : k \in 1..Len(order)}

\* The i-th entry of a section, holding the fields of F in the order given.
MakeEntry(sec, i, order, F) ==
    LET Present(f) == f \in F
        sel == SelectSeq(order, Present)
    IN  MapV([k \in 1..Len(sel) |->
                <<sel[k],
                  IF sel[k] = "responsibilities"
                  THEN ListV([j \in 1..MaxBullets |-> Val(sec, i, "bullet" \o ToString(j))])
                  ELSE Val(sec, i, sel[k])>>])

\* A list of entries, the i-th with the fields Fs[i].
EntryList(sec, order, Fs) ==
    ListV([i \in DOMAIN Fs |-> MakeEntry(sec, i, order, Fs[i])])

\* Every choice of fields for n entries.
Shapes(n, order) == [1..n -> SUBSET FieldSet(order)]

SkillPool == {"Python", "Go", "SQL"}
CertificationPool == {"CKA", "AWS SA"}

\* A personal mapping with the keys fs, in that order.
PersonalMap(fs) == MapV([k \in DOMAIN fs |-> <<fs[k], PersonalValue(fs[k])>>])

DefaultValue(sec) ==
    CASE sec = "personal" ->
            MapV(<< <<"name", PersonalValue("name")>>, <<"email", PersonalValue("email")>> >>)
      [] sec = "experience" ->
            ListV(<<MakeEntry(sec, 1, ExperienceOrder, FieldSet(ExperienceOrder))>>)
      [] sec = "education" ->
            ListV(<<MakeEntry(sec, 1, EducationOrder, FieldSet(EducationOrder))>>)
      [] sec = "skills" -> ListV(<<"Python", "Go", "SQL">>)
      [] sec = "certifications" -> ListV(<<"CKA", "AWS SA">>)
      [] sec = "projects" ->
            ListV(<<MakeEntry(sec, 1, ProjectOrder, FieldSet(ProjectOrder))>>)

EmptyValue(sec) == IF sec = "personal" THEN MapV(<<>>) ELSE ListV(<<>>)

\* What a key of the mixed family holds: nothing (YAML `key:`), an empty
\* collection, or the default content.
ValueChoice(sec, c) ==
    CASE c = "none" -> NoneV
      [] c = "empty" -> EmptyValue(sec)
      [] c = "default" -> DefaultValue(sec)

KeyLists(n) == {ks \in [1..n -> Sections] : Injective(ks)}

\* The record with the keys ks, in that order, the i-th holding choice cs[i].
MixedRecord(ks, cs) == MapV([i \in DOMAIN ks |-> <<ks[i], ValueChoice(ks[i], cs[i])>>])

OneSection(sec, v) == MapV(<< <<sec, v>> >>)

FileWith(r) == [state |-> "ok", content |-> r]

\* The input file: missing, not well-formed, or holding a record; an empty
\* file loads as None.  The records are: up to MaxSections keys in any order,
\* each with any of the three values; and all six sections with their default
\* content, in every key order.
InputFile ==
    \/ input = [state |-> "missing", content |-> NoneV]
    \/ input = [state |-> "malformed", content |-> NoneV]
    \/ input = FileWith(NoneV)
    \/ \E n \in 0..MaxSections : \E ks \in KeyLists(n) :
          \E cs \in [1..n -> {"none", "empty", "default"}] :
              input = FileWith(MixedRecord(ks, cs))
    \/ \E ks \in KeyLists(Len(SectionOrder)) :
          input = FileWith(MixedRecord(ks, [i \in DOMAIN ks |-> "default"]))

\* An input file holding one section alone, in every shape within the bounds.
SectionFile ==
    \/ \E n \in 0..MaxPersonalFields :
          \E fs \in {g \in [1..n -> PersonalFields] : Injective(g)} :
              input = FileWith(OneSection("personal", PersonalMap(fs)))
    \/ \E n \in 1..MaxEntries : \E Fs \in Shapes(n, ExperienceOrder) :
          input = FileWith(OneSection("experience",
                                      EntryList("experience", ExperienceOrder, Fs)))
    \/ \E n \in 1..MaxEntries : \E Fs \in Shapes(n, EducationOrder) :
          input = FileWith(OneSection("education",
                                      EntryList("education", EducationOrder, Fs)))
    \/ \E n \in 1..MaxEntries : \E Fs \in Shapes(n, ProjectOrder) :
          input = FileWith(OneSection("projects", EntryList("projects", ProjectOrder, Fs)))
    \/ \E n \in 0..MaxItems : \E items \in [1..n -> SkillPool] :
          input = FileWith(OneSection("skills", ListV(items)))
    \/ \E n \in 0..MaxItems : \E items \in [1..n -> CertificationPool] :
          input = FileWith(OneSection("certifications", ListV(items)))

(***************************************************************************)
(* main(), parse_input_file and generate_pdf.                              *)
(***************************************************************************)
\* parse_input_file without the test that the path exists: a missing file
\* loads as nothing.
parse_input_file_NoExistsTest(inp, d) ==
    IF inp.state = "malformed"
    THEN [raised |-> "Exception", msg |-> <<"yaml.YAMLError">>, data |-> d]
    ELSE [raised |-> "none", msg |-> <<>>, data |-> inp.content]

\* parse_input_file on input file inp, with d the record held before.
parse_input_file(inp, d) ==
    IF inp.state = "missing"
    THEN [raised |-> "FileNotFoundError",
          msg |-> <<"Input file ", INPUT_FILE, " not found!">>, data |-> d]
    ELSE IF inp.state = "malformed"
    THEN [raised |-> "Exception", msg |-> <<"yaml.YAMLError">>, data |-> d]
    ELSE [raised |-> "none", msg |-> <<>>, data |-> inp.content]

\* main_except with the general clause falling through to `return 0`.
main_except_FallThrough(kind, msg) ==
    IF kind = "FileNotFoundError"
    THEN [lines |-> << <<"Error: ">> \o msg,
                      <<"Please ensure resume_data.yaml exists with your resume data">> >>,
          code |-> 1]
    ELSE [lines |-> << <<"Error generating resume: ">> \o msg >>, code |-> 0]

\* The except clauses of main(): what is printed and returned.
main_except(kind, msg) ==
    IF kind = "FileNotFoundError"
    THEN [lines |-> << <<"Error: ">> \o msg,
                      <<"Please ensure resume_data.yaml exists with your resume data">> >>,
          code |-> 1]
    ELSE [lines |-> << <<"Error generating resume: ">> \o msg >>, code |-> 1]

\* An exception of kind `kind` raised in step `step` reaches main().
Raise(step, kind, msg, printed) ==
    LET h == main_except(kind, msg)
    IN  /\ pc' = "done"
        /\ exitCode' = <<h.code>>
        /\ stdout' = stdout \o printed \o h.lines
        /\ log' = Append(log, <<step, "fail">>)

\* The state main() starts from, once the generator is constructed.
Start ==
    /\ data = MapV(<<>>)
    /\ styles = CustomStyles
    /\ pc = "parse"
    /\ story = <<>>
    /\ origin = <<>>
    /\ handed = <<>>
    /\ outputFile = "absent"
    /\ stdout = <<>>
    /\ exitCode = <<>>
    /\ log = <<>>

ParseInputFile ==
    /\ pc = "parse"
    /\ LET r == parse_input_file(input, data)
       IN  /\ data' = r.data
           /\ IF r.raised # "none"
              THEN Raise("load", r.raised, r.msg, << <<"Parsing input data...">> >>)
              ELSE /\ pc' = "personal"
                   /\ stdout' = stdout \o << <<"Parsing input data...">>,
                                            <<"Generating PDF...">> >>
                   /\ log' = Append(log, <<"load", "ok">>)
                   /\ exitCode' = exitCode
    /\ UNCHANGED <<input, styles, story, origin, handed, outputFile>>
    /\ UNCHANGED lineVars

\* CreateSection with a renderer that rebinds the list to its own blocks.
CreateSection_Rebind(sec) ==
    /\ pc = sec
    /\ IF sec = "personal" /\ personal_raises(data)
       THEN /\ Raise(sec, "Exception", <<"argument of type 'NoneType' is not iterable">>, <<>>)
            /\ UNCHANGED <<story, origin>>
       ELSE LET blocks == Render(sec, data)
            IN  /\ story' = blocks
                /\ origin' = [i \in 1..Len(blocks) |-> sec]
                /\ pc' = AfterSection(sec)
                /\ log' = Append(log, <<sec, "ok">>)
                /\ UNCHANGED <<stdout, exitCode>>
    /\ UNCHANGED <<input, data, styles, handed, outputFile>>
    /\ UNCHANGED lineVars

\* generate_pdf's call of the renderer of section sec.
CreateSection(sec) ==
    /\ pc = sec
    /\ IF sec = "personal" /\ personal_raises(data)
       THEN /\ Raise(sec, "Exception", <<"argument of type 'NoneType' is not iterable">>, <<>>)
            /\ UNCHANGED <<story, origin>>
       ELSE LET blocks == Render(sec, data)
            IN  /\ story' = story \o blocks
                /\ origin' = origin \o [i \in 1..Len(blocks) |-> sec]
                /\ pc' = AfterSection(sec)
                /\ log' = Append(log, <<sec, "ok">>)
                /\ UNCHANGED <<stdout, exitCode>>
    /\ UNCHANGED <<input, data, styles, handed, outputFile>>
    /\ UNCHANGED lineVars

CreatePersonalSection == CreateSection("personal")
CreateExperienceSection == CreateSection("experience")
CreateEducationSection == CreateSection("education")
CreateSkillsSection == CreateSection("skills")
CreateCertificationsSection == CreateSection("certifications")
CreateProjectsSection == CreateSection("projects")

\* doc.build(story) and the rest of generate_pdf and main(): the engine lays
\* the story out and writes the file, or fails.
Build ==
    /\ pc = "build"
    /\ handed' = story
    /\ \E outcome \in {"ok", "FileNotFoundError", "Exception"} :
        IF outcome = "ok"
        THEN /\ outputFile' = "written"
             /\ stdout' = stdout \o << <<"Resume generated successfully: ", OUTPUT_FILE>>,
                                      <<"Resume generation completed successfully!">> >>
             /\ exitCode' = <<0>>
             /\ pc' = "done"
             /\ log' = Append(log, <<"build", "ok">>)
        ELSE /\ outputFile' \in {"absent"} \cup (IF outcome = "Exception" THEN {"partial"} ELSE {})
             /\ Raise("build", outcome, <<"doc.build failed">>, <<>>)
    /\ UNCHANGED <<input, data, styles, story, origin>>
    /\ UNCHANGED lineVars

(***************************************************************************)
(* TwoColumnLine.  Widths are floats: a width is an integer number of the  *)
(* format's smallest steps, and an operation rounds its exact result to    *)
(* FloatPrecision significant bits, to nearest, ties to even.              *)
(***************************************************************************)
RECURSIVE BitLen(_)
BitLen(n) == IF n = 0 THEN 0 ELSE 1 + BitLen(n \div 2)

RECURSIVE Pow2(_)
Pow2(n) == IF n = 0 THEN 1 ELSE 2 * Pow2(n - 1)

\* The spacing of the floats around x >= 0.
Quantum(x) == IF BitLen(x) <= FloatPrecision THEN 1 ELSE Pow2(BitLen(x) - FloatPrecision)

RoundNearestEven(x) ==
    LET q == Quantum(x)
        lo == (x \div q) * q
        r == x - lo
    IN  IF 2 * r < q THEN lo
        ELSE IF 2 * r > q THEN lo + q
        ELSE IF (lo \div q) % 2 = 0 THEN lo ELSE lo + q

\* The float nearest to the exact value x.
Fl(x) == IF x >= 0 THEN RoundNearestEven(x) ELSE 0 - RoundNearestEven(0 - x)

\* Python's a - b on floats.
FSub(a, b) == Fl(a - b)

Floats(max) == {x \in 0..max : Fl(x) = x}

AvailWidths == Floats(MaxAvailWidth)
TextWidths == Floats(MaxTextWidth)

LineIdle ==
    /\ line = [left_w |-> 0, right_w |-> 0]
    /\ width = <<>>
    /\ wraps = [n |-> 0, last |-> 0]
    /\ wrapResult = <<>>
    /\ drawn = <<>>

\* wrap keeping a width fixed beforehand (the widest one) instead of
\* availWidth.
wrap_FixedWidth(availWidth) ==
    [width |-> <<CHOOSE w \in AvailWidths : \A v \in AvailWidths : v <= w>>,
     result |-> <<availWidth, 14>>]

\* TwoColumnLine.wrap(availWidth, availHeight): the attribute and the result.
wrap(availWidth) == [width |-> <<availWidth>>, result |-> <<availWidth, 14>>]

\* TwoColumnLine.draw: where the two drawString calls put the texts.
draw(w, right_text_width) == [left_x |-> 0, right_x |-> FSub(w, right_text_width)]

Wrap ==
    /\ wraps.n < MaxWraps
    /\ \E availWidth \in AvailWidths :
        /\ width' = wrap(availWidth).width
        /\ wrapResult' = wrap(availWidth).result
        /\ wraps' = [n |-> wraps.n + 1, last |-> availWidth]
    /\ UNCHANGED <<line, drawn>>
    /\ UNCHANGED mainVars

\* The engine draws a flowable after it has wrapped it.
Draw ==
    /\ width # <<>>
    /\ drawn' = <<[pos |-> draw(width[1], line.right_w), avail |-> wraps.last]>>
    /\ UNCHANGED <<line, width, wraps, wrapResult>>
    /\ UNCHANGED mainVars

(***************************************************************************)
(* Specifications.                                                         *)
(***************************************************************************)
Init == InputFile /\ Start /\ LineIdle

Next ==
    \/ ParseInputFile
    \/ CreatePersonalSection
    \/ CreateExperienceSection
    \/ CreateEducationSection
    \/ CreateSkillsSection
    \/ CreateCertificationsSection
    \/ CreateProjectsSection
    \/ Build

Spec == Init /\ [][Next]_vars

\* Runs of main() on the one-section input files.
SectionInit == SectionFile /\ Start /\ LineIdle

SectionSpec == SectionInit /\ [][Next]_vars

\* One TwoColumnLine under layout.
LineInit ==
    /\ input = [state |-> "missing", content |-> NoneV]
    /\ data = MapV(<<>>)
    /\ styles = CustomStyles
    /\ pc = "layout"
    /\ story = <<>>
    /\ origin = <<>>
    /\ handed = <<>>
    /\ outputFile = "absent"
    /\ stdout = <<>>
    /\ exitCode = <<>>
    /\ log = <<>>
    /\ line \in [left_w : TextWidths, right_w : TextWidths]
    /\ width = <<>>
    /\ wraps = [n |-> 0, last |-> 0]
    /\ wrapResult = <<>>
    /\ drawn = <<>>

LineNext == Wrap \/ Draw

LineSpec == LineInit /\ [][LineNext]_vars

(***************************************************************************)
(* Properties.                                                             *)
(***************************************************************************)
\* The renderer of sec, or the step `step`, has run to its end.
Completed(step) == \E k \in 1..Len(log) : log[k] = <<step, "ok">>

Failed(step) == \E k \in 1..Len(log) : log[k] = <<step, "fail">>

\* The blocks of the story that the renderer of sec appended, in order.
BlocksOf(sec) ==
    LET FromSec(i) == origin[i] = sec
        idx == SelectSeq([i \in 1..Len(story) |-> i], FromSec)
    IN  [k \in 1..Len(idx) |-> story[idx[k]]]

\* The governing key of sec is absent from record d, or its value is empty.
Omitted(sec, d) == ~In(sec, d) \/ ~Truthy(Get(d, sec))

Rank(sec) == CHOOSE k \in 1..Len(SectionOrder) : SectionOrder[k] = sec

KeyOf(d, i) == d.items[i][1]

IsHeader(b) == b.kind = "Paragraph" /\ b.style = "SectionHeader"

\* C1: for each of the six sections, if the section's governing key is absent
\* from the loaded record or its value is empty, the section's renderer
\* appends nothing to the block list.
C1_OmissionIsTotal ==
    \A sec \in Sections :
        Completed(sec) /\ Omitted(sec, data) => BlocksOf(sec) = <<>>

\* C2: whatever the order of the record's top-level keys, the blocks handed to
\* the engine are grouped by section in the order Personal, Experience,
\* Education, Skills, Certifications, Projects: the sections of the blocks
\* never step back, so each section's blocks are contiguous.
C2_SectionOrderFixed ==
    (Completed("build") \/ Failed("build")) =>
        /\ handed = story
        /\ \A i \in 1..Len(handed) - 1 : Rank(origin[i]) <= Rank(origin[i + 1])

\* A record whose keys come in the reverse of the rendering order has been
\* rendered with all six sections present.
C2_Witness ==
    /\ Completed("build")
    /\ Len(data.items) = Len(SectionOrder)
    /\ \A i \in 1..Len(SectionOrder) :
          KeyOf(data, i) = SectionOrder[Len(SectionOrder) + 1 - i]
    /\ \A sec \in Sections : BlocksOf(sec) # <<>>

\* C3: main returns 0 exactly when parse_input_file and generate_pdf both
\* complete, and 1 in every other case; it returns one of the two codes, an
\* error never leaves a run without an exit code, and a run that has not
\* returned can take its next step.
C3_ExitCode ==
    /\ exitCode \in {<<>>, <<0>>, <<1>>}
    /\ pc = "done" <=> exitCode # <<>>
    /\ exitCode = <<0>> <=> (Completed("load") /\ Completed("build"))
    /\ exitCode = <<1>> <=> \E k \in 1..Len(log) : log[k][2] = "fail"
    /\ pc # "done" => ENABLED Next

\* The engine failed on a story that was built: main has returned 1.
C3_Witness ==
    /\ pc = "done"
    /\ Failed("build")
    /\ story # <<>>
    /\ exitCode = <<1>>

StepOrder == <<"load">> \o SectionOrder \o <<"build">>

\* C4: when the input path does not exist nothing is read: the record stays
\* empty, no block list is built, nothing is handed to the engine or written,
\* the printed error names the input file, and main returns 1.  In every run
\* the steps are taken in the order load, the six renderers, engine, and a
\* failed step is the last step.
C4_MissingInputAndStepOrder ==
    /\ input.state = "missing" /\ pc = "done" =>
          /\ data = MapV(<<>>)
          /\ log = << <<"load", "fail">> >>
          /\ story = <<>> /\ handed = <<>> /\ outputFile = "absent"
          /\ exitCode = <<1>>
          /\ \E n \in 1..Len(stdout) :
                \E k \in 1..Len(stdout[n]) : stdout[n][k] = INPUT_FILE
    /\ Len(log) <= Len(StepOrder)
    /\ \A k \in 1..Len(log) :
          /\ log[k][1] = StepOrder[k]
          /\ log[k][2] = "fail" => k = Len(log) /\ pc = "done"
    /\ story # <<>> => Completed("load")
    /\ (handed # <<>> \/ outputFile # "absent") =>
          (Completed("projects") /\ (Completed("build") \/ Failed("build")))

C4_Witness ==
    /\ input.state = "missing"
    /\ pc = "done"
    /\ Len(stdout) > 1

\* The entries of the list a section's key holds.
Entries(sec) == Get(data, sec).items

\* sec has been rendered from a list that is present and not empty.
Shown(sec) == Completed(sec) /\ ~Omitted(sec, data)

IsLine(b) == b.kind = "TwoColumnLine"
IsParagraph(b) == b.kind = "Paragraph"

\* The field pairs that share a two-column line.
Pairs(sec) ==
    IF sec = "experience"
    THEN << <<"company", "location">>, <<"title", "duration">> >>
    ELSE << <<"institution", "duration">>, <<"degree", "location">> >>

\* The <<left, right>> texts of the two-column lines due for entry e.
PairTexts(sec, e) ==
    Flatten([k \in 1..Len(Pairs(sec)) |->
        LET p == Pairs(sec)[k]
        IN  IF In(p[1], e) /\ In(p[2], e)
            THEN << <<Get(e, p[1]), Get(e, p[2])>> >> ELSE <<>>])

\* Block b shows text v as a whole text of its own.
Shows(b, v) ==
    \/ IsParagraph(b) /\ b.text = v
    \/ IsLine(b) /\ (b.left_text = v \/ b.right_text = v)

NumBullets(e) ==
    IF In("responsibilities", e) THEN Len(Get(e, "responsibilities").items) ELSE 0

RECURSIVE Sum(_)
Sum(ns) == IF ns = <<>> THEN 0 ELSE ns[1] + Sum(Tail(ns))

\* C5: in the experience and education sections a two-column line is there for
\* a pair of an entry if and only if both fields of the pair are present, in
\* the order of the entries; a field whose partner is missing is shown by no
\* block, and the section's paragraphs are its header and the bullets only.
C5_PairedLines ==
    \A sec \in {"experience", "education"} :
        Shown(sec) =>
            LET S == BlocksOf(sec)
                lines == SelectSeq(S, IsLine)
                es == Entries(sec)
            IN  /\ [k \in 1..Len(lines) |-> <<lines[k].left_text, lines[k].right_text>>]
                      = Flatten([i \in 1..Len(es) |-> PairTexts(sec, es[i])])
                /\ \A i \in 1..Len(es) : \A k \in 1..Len(Pairs(sec)) : \A a, b \in 1..2 :
                      (a # b /\ In(Pairs(sec)[k][a], es[i]) /\ ~In(Pairs(sec)[k][b], es[i]))
                          => \A n \in 1..Len(S) : ~Shows(S[n], Get(es[i], Pairs(sec)[k][a]))
                /\ Len(SelectSeq(S, IsParagraph))
                      = 1 + (IF sec = "experience"
                             THEN Sum([i \in 1..Len(es) |-> NumBullets(es[i])]) ELSE 0)

\* An experience entry with company and title but neither location nor
\* duration, and bullets, has been rendered.
C5_Witness ==
    /\ Shown("experience")
    /\ \E i \in 1..Len(Entries("experience")) :
          LET e == Entries("experience")[i]
          IN  /\ In("company", e) /\ In("title", e)
              /\ ~In("location", e) /\ ~In("duration", e)
              /\ NumBullets(e) > 0
    /\ pc = "done"

ContactFields == <<"email", "phone", "location", "linkedin", "github", "website">>

HasStyle(b, style) == IsParagraph(b) /\ b.style = style

\* C6: when the personal mapping is present the personal section has one name
\* heading iff name is present and none otherwise, one contact line iff a
\* contact field is present and none otherwise, and the contact line is the
\* present contact fields, each once, in the fixed order email, phone,
\* location, linkedin, github, website, joined by the separator; a record
\* holding only personal: {name, email} gives one name heading, one contact
\* line that is the email, and no section header.
C6_PersonalSection ==
    /\ (Completed("personal") /\ In("personal", data)) =>
          LET personal == Get(data, "personal")
              S == BlocksOf("personal")
              IsName(b) == HasStyle(b, "Name")
              IsContact(b) == HasStyle(b, "Contact")
              names == SelectSeq(S, IsName)
              contacts == SelectSeq(S, IsContact)
              Present(f) == In(f, personal)
              fields == SelectSeq(ContactFields, Present)
          IN  /\ Len(names) = (IF In("name", personal) THEN 1 ELSE 0)
              /\ In("name", personal) => names[1].text = Get(personal, "name")
              /\ Len(contacts) = (IF fields # <<>> THEN 1 ELSE 0)
              /\ fields # <<>> =>
                    contacts[1].text =
                        Join(" " \o BULLET \o " ",
                             [k \in 1..Len(fields) |-> Get(personal, fields[k])])
              /\ \A n \in 1..Len(S) : ~IsHeader(S[n])
    /\ (/\ pc \in {"build", "done"} /\ Completed("projects")
        /\ Len(data.items) = 1 /\ In("personal", data)
        /\ {Get(data, "personal").items[k][1] :
                k \in 1..Len(Get(data, "personal").items)} = {"name", "email"}) =>
          LET IsName(b) == HasStyle(b, "Name")
              IsContact(b) == HasStyle(b, "Contact")
          IN  /\ Len(SelectSeq(story, IsName)) = 1
              /\ Len(SelectSeq(story, IsContact)) = 1
              /\ SelectSeq(story, IsContact)[1].text = "jane@x.com"
              /\ SelectSeq(story, IsHeader) = <<>>

\* A personal mapping whose keys come as website, then email, has been rendered.
C6_Witness ==
    /\ Completed("personal")
    /\ In("personal", data)
    /\ Len(Get(data, "personal").items) >= 2
    /\ Get(data, "personal").items[1][1] = "website"
    /\ Get(data, "personal").items[2][1] = "email"

\* The texts the lines of entry e show, by the section's layout: a line is due
\* when every field it needs is present.
DueTexts(sec, e) ==
    CASE sec = "experience" ->
            PairTexts(sec, e)
            \o (IF In("responsibilities", e)
                THEN LET rs == Get(e, "responsibilities").items
                     IN  [j \in 1..Len(rs) |-> <<"- " \o rs[j]>>]
                ELSE <<>>)
      [] sec = "education" -> PairTexts(sec, e)
      [] sec = "projects" ->
            (IF In("name", e) THEN << <<"<b>" \o Get(e, "name") \o "</b>">> >> ELSE <<>>)
            \o (IF In("description", e) THEN << <<Get(e, "description")>> >> ELSE <<>>)
            \o (IF In("technologies", e)
                THEN << <<"<b>Technologies:</b> " \o Get(e, "technologies")>> >> ELSE <<>>)
            \o (IF In("link", e) THEN << <<"<b>Link:</b> " \o Get(e, "link")>> >> ELSE <<>>)

HeaderText(sec) ==
    CASE sec = "experience" -> "PROFESSIONAL EXPERIENCE"
      [] sec = "education" -> "EDUCATION"
      [] sec = "skills" -> "TECHNICAL SKILLS"
      [] sec = "certifications" -> "CERTIFICATIONS"
      [] sec = "projects" -> "PROJECTS"

TextsOf(b) == IF IsLine(b) THEN <<b.left_text, b.right_text>> ELSE <<b.text>>

HasText(b) == IsLine(b) \/ IsParagraph(b)

\* C8: when the list of the experience, education or projects section is
\* present and not empty, the header is appended and, after it, every line
\* whose fields are present, entry by entry in input order: a missing field
\* removes its own line or pairing only, also in an entry with no field.
C8_AbsenceSkipsOneLine ==
    \A sec \in {"experience", "education", "projects"} :
        Shown(sec) =>
            LET S == BlocksOf(sec)
                T == SelectSeq(S, HasText)
                es == Entries(sec)
            IN  /\ S[1] = Paragraph(HeaderText(sec), "SectionHeader")
                /\ [k \in 1..Len(T) |-> TextsOf(T[k])]
                      = << <<HeaderText(sec)>> >>
                         \o Flatten([i \in 1..Len(es) |-> DueTexts(sec, es[i])])

\* Two projects have been rendered, the first with a link and no name, the
\* second with every field.
C8_Witness ==
    /\ Shown("projects")
    /\ Len(Entries("projects")) = 2
    /\ ~In("name", Entries("projects")[1]) /\ In("link", Entries("projects")[1])
    /\ \A f \in FieldSet(ProjectOrder) : In(f, Entries("projects")[2])
    /\ pc = "done"

\* C9: a renderer only appends to the block list: each step leaves the blocks
\* already there as a prefix of the list; after loading, no step changes the
\* record, which stays the one loaded; no step changes the style table.
C9_AppendOnly ==
    /\ [](styles = CustomStyles)
    /\ [](Completed("load") => data = input.content)
    /\ [][/\ IsPrefix(story, story')
          /\ pc # "parse" => data' = data
          /\ pc \in Sections /\ pc' # "done" =>
                /\ story' = story \o Render(pc, data)
                /\ Len(origin') = Len(story')]_vars

\* Blocks of three sections or more are in the list, the record as loaded.
C9_Witness ==
    /\ pc = "done"
    /\ Cardinality({origin[i] : i \in 1..Len(origin)}) >= 3
    /\ data = input.content

\* C10: a rendered Experience, Education, Skills or Certifications section
\* starts with its header, a horizontal rule and a spacer; each section
\* header is in the block list at most once; a rendered Projects section has
\* its header followed directly by the first project's first block, with no
\* rule and no separator spacer.
C10_Separators ==
    /\ \A sec \in {"experience", "education", "skills", "certifications"} :
          Shown(sec) =>
              LET S == BlocksOf(sec)
              IN  /\ Len(S) >= 3
                  /\ S[1] = Paragraph(HeaderText(sec), "SectionHeader")
                  /\ S[2].kind = "HRFlowable"
                  /\ S[3].kind = "Spacer"
    /\ \A sec \in Sections \ {"personal"} :
          Cardinality({n \in 1..Len(story) :
                          IsHeader(story[n]) /\ story[n].text = HeaderText(sec)}) <= 1
    /\ Shown("projects") =>
          LET S == BlocksOf("projects")
          IN  /\ Len(S) >= 2
              /\ S[1] = Paragraph(HeaderText("projects"), "SectionHeader")
              /\ S[2] = project_entry(Entries("projects")[1])[1]
              /\ \A n \in 1..Len(S) : S[n].kind # "HRFlowable"
              /\ S[2] # add_section_separator[2]

\* Certifications and projects have both been rendered from their lists.
C10_Witness ==
    /\ Shown("certifications")
    /\ Shown("projects")
    /\ pc = "done"

Abs(x) == IF x >= 0 THEN x ELSE 0 - x

\* C7 as claimed: after a draw the left text is at 0 and the right text at
\* right_x with right_x + measured right width = W exactly, W the width of
\* the most recent wrap; wrap reports (W, 14); for W at least the sum of the
\* two measured widths the texts do not overlap.
C7_ExactRightEdge ==
    /\ wraps.n > 0 => wrapResult = <<wraps.last, 14>>
    /\ drawn # <<>> =>
          /\ drawn[1].pos.left_x = 0
          /\ drawn[1].pos.right_x + line.right_w = drawn[1].avail
          /\ drawn[1].avail >= line.left_w + line.right_w =>
                drawn[1].pos.right_x >= line.left_w

\* C7, amended: right_x is the float nearest to W - measured right width, W
\* the width of the most recent wrap: right_x + measured right width = W when
\* that difference is a float, and is off by at most half the spacing of the
\* floats at the difference otherwise; wrap reports (W, 14); for W at least the
\* sum of the two measured widths the texts do not overlap.
C7_RoundedRightEdge ==
    /\ wraps.n > 0 => wrapResult = <<wraps.last, 14>>
    /\ drawn # <<>> =>
          LET W == drawn[1].avail
              right_x == drawn[1].pos.right_x
              exact == W - line.right_w
          IN  /\ drawn[1].pos.left_x = 0
              /\ Fl(right_x) = right_x
              /\ 2 * Abs(right_x - exact) <= Quantum(Abs(exact))
              /\ Fl(exact) = exact => right_x + line.right_w = W
              /\ W >= line.left_w + line.right_w => right_x >= line.left_w

\* A line has been wrapped twice and drawn at a width whose difference to the
\* right text's width is no float.
C7_Witness ==
    /\ wraps.n = 2
    /\ drawn # <<>>
    /\ drawn[1].avail = wraps.last
    /\ Fl(drawn[1].avail - line.right_w) # drawn[1].avail - line.right_w
    /\ drawn[1].avail >= line.left_w + line.right_w

====
